---- MODULE Spec2Model ----
(***************************************************************************)
(* pixela_eval: a text expression is stripped of whitespace, scanned into  *)
(* tokens (parser.rs, Parser::tokens), reordered to postfix                *)
(* (Parser::shunting_yard) and reduced on an operand stack                 *)
(* (Parser::calculate).  Expression::eval_with_var chains the three and    *)
(* api::eval is the public entry point.                                    *)
(*                                                                         *)
(* A text is a sequence of one-character strings.  A token is a tuple      *)
(* whose first element is the variant name of parser.rs's Token.  An f64   *)
(* read from a literal is the reduced fraction <<n, d>> of its decimal     *)
(* value; an f64 computed by the evaluator is the term of the operations   *)
(* that produced it (terms are equal only if the same operations were      *)
(* applied to the same operands in the same order).                        *)
(***************************************************************************)
EXTENDS Integers, Sequences, FiniteSets

VARIABLES
    input,       \* Expression.input: the text handed to eval
    x,           \* eval's optional x-value
    variables,   \* eval's binding table (api.rs, `variables`)
    tokens,      \* the infix token sequence handed to shunting_yard
    rest,        \* the input many0 left unconsumed
    postfix,     \* the token sequence handed to calculate
    i,           \* position of the for loop of shunting_yard / calculate
    output,      \* shunting_yard: output
    operators,   \* shunting_yard: operators
    stack,       \* calculate: stack
    sy_result,   \* what shunting_yard returned
    calc_result, \* what calculate returned
    outcome,     \* what eval returned
    pc,          \* where the run is
    fault,       \* which panic ended the run, if one did
    prev,        \* the previous call of eval on this input: <<x-value, outcome>>
    calls        \* number of calls of eval so far

vars == <<input, x, variables, tokens, rest, postfix, i, output, operators,
          stack, sy_result, calc_result, outcome, pc, fault, prev, calls>>

(***************************************************************************)
(* Bounds of the model.                                                    *)
(***************************************************************************)
MaxInput == 3
MaxTokens == 4
MaxPostfix == 4
MaxInfix == 7
MaxCalls == 2

None == <<"None">>

(***************************************************************************)
(* f64 values.                                                             *)
(***************************************************************************)
RECURSIVE GCD(_, _)
GCD(a, b) == IF b = 0 THEN a ELSE GCD(b, a % b)

Abs(a) == IF a < 0 THEN -a ELSE a

\* The fraction n/d in lowest terms with a positive denominator.
Frac(n, d) ==
    LET g == GCD(Abs(n), Abs(d))
        s == IF d < 0 THEN -1 ELSE 1
    IN  <<(s * n) \div g, (s * d) \div g>>

RECURSIVE Pow(_, _)
Pow(b, e) == IF e = 0 THEN 1 ELSE b * Pow(b, e - 1)

Num(n, d) == <<"num", Frac(n, d)[1], Frac(n, d)[2]>>

\* Operator::apply: the f64 produced by operator `sym` on a and b.
Apply(sym, a, b) == <<"app", sym, a, b>>

\* -x, and x.sin() / x.cos() / x.tan().
Neg(a) == <<"neg", a>>
Call(f, a) == <<"fn", f, a>>

\* A value with no exact fraction here (an infinity, a NaN, an irrational).
Inexact == <<0, 0>>

\* The number a term denotes, where the arithmetic is exact: the closures of
\* the operator table and the trigonometric functions at 0.
RECURSIVE Value(_)
Value(t) ==
    CASE t[1] = "num" -> <<t[2], t[3]>>
      [] t[1] = "neg" ->
            LET a == Value(t[2])
            IN  IF a = Inexact THEN Inexact ELSE Frac(-a[1], a[2])
      [] t[1] = "fn" ->
            LET a == Value(t[3])
            IN  IF a # <<0, 1>> THEN Inexact
                ELSE IF t[2] = "Cos" THEN <<1, 1>> ELSE <<0, 1>>
      [] t[1] = "app" ->
            LET a == Value(t[3])
                b == Value(t[4])
            IN  IF a = Inexact \/ b = Inexact THEN Inexact
                ELSE CASE t[2] = "+" -> Frac(a[1] * b[2] + b[1] * a[2], a[2] * b[2])
                       [] t[2] = "*" -> Frac(a[1] * b[1], a[2] * b[2])
                       [] t[2] = "/" -> IF b[1] = 0 THEN Inexact
                                        ELSE Frac(a[1] * b[2], a[2] * b[1])
                       [] t[2] = "^" -> IF b[2] = 1 /\ b[1] >= 0
                                        THEN Frac(Pow(a[1], b[1]), Pow(a[2], b[1]))
                                        ELSE Inexact

(***************************************************************************)
(* Tokens.                                                                 *)
(***************************************************************************)
Number(n, d) == <<"Number", Frac(n, d)[1], Frac(n, d)[2]>>
Variable(v) == <<"Variable", v>>
Operator(sym) == <<"Operator", sym>>
LeftParen == <<"LeftParen">>
RightParen == <<"RightParen">>
Negate == <<"Negate">>
Function(f) == <<"Function", f>>

Kind(t) == t[1]

\* The operator table of parse_operator.
Precedence(sym) ==
    CASE sym = "+" -> 2
      [] sym = "*" -> 3
      [] sym = "/" -> 3
      [] sym = "^" -> 4

IsLeftAssociative(sym) == sym # "^"

(***************************************************************************)
(* The tokenizer.                                                          *)
(***************************************************************************)
Digits == <<"0", "1", "2", "3", "4", "5", "6", "7", "8", "9">>

IsDigit(c) == \E k \in 1..10 : Digits[k] = c

DigitValue(c) == (CHOOSE k \in 1..10 : Digits[k] = c) - 1

IsWhitespace(c) == c \in {" ", "\t", "\n"}

\* Parser::new: the input without its whitespace.
ParserNew(s) == SelectSeq(s, LAMBDA c : ~IsWhitespace(c))

\* take_while1's run: the first position from p on that holds no digit or '.'.
RECURSIVE NumberEnd(_, _)
NumberEnd(s, p) ==
    IF p <= Len(s) /\ (IsDigit(s[p]) \/ s[p] = ".") THEN NumberEnd(s, p + 1) ELSE p

\* f64::from_str on a run of digits and '.': digits with at most one '.',
\* and at least one digit.
RECURSIVE Mantissa(_, _)
Mantissa(run, acc) ==
    IF run = <<>> THEN acc
    ELSE IF run[1] = "." THEN Mantissa(Tail(run), acc)
    ELSE Mantissa(Tail(run), 10 * acc + DigitValue(run[1]))

F64FromStr(run) ==
    LET dots == {k \in 1..Len(run) : run[k] = "."}
        ndigits == Len(run) - Cardinality(dots)
    IN  IF Cardinality(dots) > 1 \/ ndigits = 0 THEN <<"Err">>
        ELSE LET scale == IF dots = {} THEN 0
                          ELSE Len(run) - (CHOOSE k \in dots : TRUE)
             IN  <<"Ok", Mantissa(run, 0), Pow(10, scale)>>

Error == <<"Error">>
Panic(why) == <<"Panic", why>>

parse_number(s, p) ==
    LET e == NumberEnd(s, p)
    IN  IF e = p THEN Error
        ELSE LET f == F64FromStr(SubSeq(s, p, e - 1))
             IN  IF f[1] = "Err" THEN Panic("unwrap:parse_number")
                 ELSE <<"Ok", Number(f[2], f[3]), e>>

parse_variable(s, p) ==
    IF p > Len(s) THEN Error
    ELSE CASE s[p] = "x" -> <<"Ok", Variable("X"), p + 1>>
           [] s[p] = "y" -> <<"Ok", Variable("Y"), p + 1>>
           [] s[p] = "z" -> <<"Ok", Variable("Z"), p + 1>>
           [] OTHER -> Error

parse_operator(s, p) ==
    IF p > Len(s) THEN Error
    ELSE CASE s[p] \in {"+", "*", "/", "^"} -> <<"Ok", Operator(s[p]), p + 1>>
           [] s[p] = "-" -> IF p + 1 <= Len(s) /\ s[p + 1] = "-" THEN Error
                            ELSE <<"Ok", Negate, p + 1>>
           [] s[p] = "(" -> <<"Ok", LeftParen, p + 1>>
           [] s[p] = ")" -> <<"Ok", RightParen, p + 1>>
           [] OTHER -> Error

HasTag(s, p, tag) == p + 2 <= Len(s) /\ SubSeq(s, p, p + 2) = tag

parse_function(s, p) ==
    CASE HasTag(s, p, <<"s", "i", "n">>) -> <<"Ok", Function("Sin"), p + 3>>
      [] HasTag(s, p, <<"c", "o", "s">>) -> <<"Ok", Function("Cos"), p + 3>>
      [] HasTag(s, p, <<"t", "a", "n">>) -> <<"Ok", Function("Tan"), p + 3>>
      [] OTHER -> Error

\* alt: the first alternative that does not fail; a panic ends the scan.
token(s, p) ==
    IF parse_number(s, p) # Error THEN parse_number(s, p)
    ELSE IF parse_variable(s, p) # Error THEN parse_variable(s, p)
    ELSE IF parse_operator(s, p) # Error THEN parse_operator(s, p)
    ELSE parse_function(s, p)

\* many0(token): tokens until the first failure; Ok with what is left.
\* (Every token consumes at least one character, so many0's own failure on a
\* parser that consumes nothing does not arise.)
RECURSIVE many0(_, _, _)
many0(s, p, acc) ==
    LET r == token(s, p)
    IN  CASE r[1] = "Ok" -> many0(s, r[3], Append(acc, r[2]))
          [] r[1] = "Error" -> <<"Ok", SubSeq(s, p, Len(s)), acc>>
          [] r[1] = "Panic" -> r

Parser_tokens(s) == many0(ParserNew(s), 1, <<>>)

(***************************************************************************)
(* The shunting-yard reorderer.                                            *)
(***************************************************************************)
Top(st) == st[Len(st)]
Pop(st) == SubSeq(st, 1, Len(st) - 1)

\* A variant of tilt_until that emits the stop token instead of discarding it.
RECURSIVE tilt_until_emitting_stop(_, _, _)
tilt_until_emitting_stop(ops, out, stop) ==
    IF ops = <<>> THEN <<FALSE, ops, out>>
    ELSE IF Top(ops) = stop THEN <<TRUE, Pop(ops), Append(out, Top(ops))>>
    ELSE tilt_until_emitting_stop(Pop(ops), Append(out, Top(ops)), stop)

\* tilt_until: pops operators to the output until `stop` is popped.
\* <<found, operators, output>> as the call leaves them.
RECURSIVE tilt_until(_, _, _)
tilt_until(ops, out, stop) ==
    IF ops = <<>> THEN <<FALSE, ops, out>>
    ELSE IF Top(ops) = stop THEN <<TRUE, Pop(ops), out>>
    ELSE tilt_until(Pop(ops), Append(out, Top(ops)), stop)

\* A variant of the comparison that treats every operator as left-associative.
PopsBeforeIgnoringAssociativity(top_sym, sym) ==
    Precedence(top_sym) >= Precedence(sym)

\* The comparison of shunting_yard's Operator arm: whether the operator on
\* top of the stack goes to the output before `sym` is pushed.
PopsBefore(top_sym, sym) ==
    LET p == Precedence(top_sym)
        q == Precedence(sym)
    IN  \/ IsLeftAssociative(top_sym) /\ p >= q
        \/ ~IsLeftAssociative(top_sym) /\ p > q

\* The `while let Some(top) = operators.top()` loop of the Operator arm.
\* <<how it ended, operators, output>>.
RECURSIVE OperatorArm(_, _, _)
OperatorArm(sym, ops, out) ==
    IF ops = <<>> THEN <<"pushed", ops, out>>
    ELSE CASE Kind(Top(ops)) = "LeftParen" -> <<"pushed", ops, out>>
           [] Kind(Top(ops)) = "Operator" ->
                 IF PopsBefore(Top(ops)[2], sym)
                 THEN OperatorArm(sym, Pop(ops), Append(out, Top(ops)))
                 ELSE <<"pushed", ops, out>>
           [] Kind(Top(ops)) \in {"Number", "Variable", "Negate", "Function"} ->
                 <<"todo", ops, out>>
           \* `top` is a copy that never becomes LeftParen: the inner loop
           \* pops until the assertion on pop() fails.
           [] Kind(Top(ops)) = "RightParen" -> <<"assert", <<>>, out>>

\* One iteration of shunting_yard's for loop.
SYStep ==
    /\ pc = "shunting_yard"
    /\ i <= Len(tokens)
    /\ LET tok == tokens[i]
           arm == OperatorArm(tok[2], operators, output)
           tilt == tilt_until(operators, output, LeftParen)
       IN  CASE Kind(tok) \in {"Number", "Variable"} ->
                   /\ output' = Append(output, tok)
                   /\ i' = i + 1
                   /\ UNCHANGED <<operators, sy_result, pc, fault>>
             [] Kind(tok) \in {"LeftParen", "Function", "Negate"} ->
                   /\ operators' = Append(operators, tok)
                   /\ i' = i + 1
                   /\ UNCHANGED <<output, sy_result, pc, fault>>
             [] Kind(tok) = "Operator" ->
                   /\ output' = arm[3]
                   /\ IF arm[1] = "pushed"
                      THEN /\ operators' = Append(arm[2], tok)
                           /\ i' = i + 1
                           /\ UNCHANGED <<pc, fault>>
                      ELSE /\ operators' = arm[2]
                           /\ pc' = "panic"
                           /\ fault' = arm[1]
                           /\ UNCHANGED i
                   /\ UNCHANGED sy_result
             [] Kind(tok) = "RightParen" ->
                   /\ operators' = tilt[2]
                   /\ output' = tilt[3]
                   /\ IF tilt[1]
                      THEN /\ i' = i + 1
                           /\ UNCHANGED <<sy_result, pc>>
                      ELSE /\ sy_result' = <<"Err", "Mismatched ')'">>
                           /\ pc' = "sy_returned"
                           /\ UNCHANGED i
                   /\ UNCHANGED fault
    /\ UNCHANGED <<input, x, variables, tokens, rest, postfix, stack,
                   calc_result, outcome, prev, calls>>

\* After the loop: the final tilt_until, the assertion and the return.
SYFinish ==
    /\ pc = "shunting_yard"
    /\ i > Len(tokens)
    /\ LET tilt == tilt_until(operators, output, LeftParen)
       IN  /\ operators' = tilt[2]
           /\ output' = tilt[3]
           /\ IF tilt[1]
              THEN /\ sy_result' = <<"Err", "Mismatched '('">>
                   /\ pc' = "sy_returned"
                   /\ UNCHANGED fault
              ELSE IF tilt[2] # <<>>
              THEN /\ pc' = "panic"
                   /\ fault' = "assert"
                   /\ UNCHANGED sy_result
              ELSE /\ sy_result' = <<"Ok", tilt[3]>>
                   /\ pc' = "sy_returned"
                   /\ UNCHANGED fault
    /\ UNCHANGED <<input, x, variables, tokens, rest, postfix, i, stack,
                   calc_result, outcome, prev, calls>>

(***************************************************************************)
(* The postfix evaluator.                                                  *)
(***************************************************************************)
\* A variant of the one-operand arms whose Variable arm pushes the value
\* bound to x in the binding table.
UnaryBindingVariable(tok, st) ==
    CASE Kind(tok) = "Variable" -> Append(st, variables["x"])
      [] st = <<>> -> st
      [] Kind(tok) = "Function" -> Append(Pop(st), Call(tok[2], Top(st)))
      [] Kind(tok) = "Negate" -> Append(Pop(st), Neg(Top(st)))

\* A variant of the one-operand arms that fails to push after the pop of the
\* Variable arm, and pushes the negation of 0 on an empty stack.
UnaryLosingOperand(tok, st) ==
    IF st = <<>>
    THEN IF Kind(tok) = "Negate" THEN <<Neg(Num(0, 1))>> ELSE st
    ELSE CASE Kind(tok) = "Function" -> Append(Pop(st), Call(tok[2], Top(st)))
           [] Kind(tok) = "Negate" -> Append(Pop(st), Neg(Top(st)))
           [] Kind(tok) = "Variable" -> Pop(st)

\* The Function, Negate and Variable arms: `if let Some(v) = stack.pop()
\* { stack.push(f(v)) }`.
Unary(tok, st) ==
    IF st = <<>> THEN st
    ELSE CASE Kind(tok) = "Function" -> Append(Pop(st), Call(tok[2], Top(st)))
           [] Kind(tok) = "Negate" -> Append(Pop(st), Neg(Top(st)))
           [] Kind(tok) = "Variable" -> Append(Pop(st), Top(st))

\* The Operator arm on a stack of at least two values.
Binary(tok, st) ==
    Append(Pop(Pop(st)), Apply(tok[2], Top(Pop(st)), Top(st)))

\* One iteration of calculate's for loop.
CalcStep ==
    /\ pc = "calculate"
    /\ i <= Len(postfix)
    /\ LET tok == postfix[i]
       IN  CASE Kind(tok) = "Number" ->
                   /\ stack' = Append(stack, Num(tok[2], tok[3]))
                   /\ i' = i + 1
                   /\ UNCHANGED <<calc_result, pc, fault>>
             [] Kind(tok) \in {"Function", "Negate", "Variable"} ->
                   /\ stack' = Unary(tok, stack)
                   /\ i' = i + 1
                   /\ UNCHANGED <<calc_result, pc, fault>>
             [] Kind(tok) = "Operator" ->
                   IF Len(stack) >= 2
                   THEN /\ stack' = Binary(tok, stack)
                        /\ i' = i + 1
                        /\ UNCHANGED <<calc_result, pc, fault>>
                   ELSE /\ stack' = <<>>
                        /\ calc_result' =
                             <<"Err", "Missing operand for operator", tok[2]>>
                        /\ pc' = "calc_returned"
                        /\ UNCHANGED <<i, fault>>
             [] Kind(tok) \in {"LeftParen", "RightParen"} ->
                   /\ pc' = "panic"
                   /\ fault' = "unreachable"
                   /\ UNCHANGED <<stack, i, calc_result>>
    /\ UNCHANGED <<input, x, variables, tokens, rest, postfix, output,
                   operators, sy_result, outcome, prev, calls>>

\* A variant of the final check that returns the top of any non-empty stack.
FinalResultTopOfStack(st) ==
    IF Len(st) = 0
    THEN <<"Err", "Expected 1 value on stack, found", Len(st)>>
    ELSE <<"Ok", st[Len(st)]>>

\* What calculate returns once every token is consumed.
FinalResult(st) ==
    IF Len(st) # 1
    THEN <<"Err", "Expected 1 value on stack, found", Len(st)>>
    ELSE <<"Ok", st[1]>>

\* After the loop: the stack holds the result, or the call fails.
CalcFinish ==
    /\ pc = "calculate"
    /\ i > Len(postfix)
    /\ calc_result' = FinalResult(stack)
    /\ stack' = IF Len(stack) # 1 THEN stack ELSE <<>>
    /\ pc' = "calc_returned"
    /\ UNCHANGED <<input, x, variables, tokens, rest, postfix, i, output,
                   operators, sy_result, outcome, fault, prev, calls>>
(***************************************************************************)
(* Expression::eval_with_var and api::eval.                                *)
(***************************************************************************)
Some(v) == <<"Some", v>>

\* eval: the x-value, or 0.0, goes into the binding table under "x".
ApiEval ==
    /\ pc = "eval"
    /\ variables' = [k \in {"x"} |-> IF x = None THEN Num(0, 1) ELSE x[2]]
    /\ pc' = "tokens"
    /\ UNCHANGED <<input, x, tokens, rest, postfix, i, output, operators, stack,
                   sy_result, calc_result, outcome, fault, prev, calls>>

\* eval_with_var: Parser::new(inp).tokens(), and `tokens.unwrap().1` handed
\* to shunting_yard.
EvalWithVarTokens ==
    /\ pc = "tokens"
    /\ LET r == Parser_tokens(input)
       IN  IF r[1] = "Panic"
           THEN /\ pc' = "panic"
                /\ fault' = r[2]
                /\ UNCHANGED <<tokens, rest, i>>
           ELSE /\ rest' = r[2]
                /\ tokens' = r[3]
                /\ i' = 1
                /\ pc' = "shunting_yard"
                /\ UNCHANGED fault
    /\ UNCHANGED <<input, x, variables, postfix, output, operators, stack,
                   sy_result, calc_result, outcome, prev, calls>>

\* `Parser::calculate(result.unwrap())`.
UnwrapPostfix ==
    /\ pc = "sy_returned"
    /\ IF sy_result[1] = "Ok"
       THEN /\ postfix' = sy_result[2]
            /\ i' = 1
            /\ pc' = "calculate"
            /\ UNCHANGED fault
       ELSE /\ pc' = "panic"
            /\ fault' = "unwrap:shunting_yard"
            /\ UNCHANGED <<postfix, i>>
    /\ UNCHANGED <<input, x, variables, tokens, rest, output, operators, stack,
                   sy_result, calc_result, outcome, prev, calls>>

\* `if let Ok(num) = result { Some(num) } else { None }`.
EvalWithVarReturn ==
    /\ pc = "calc_returned"
    /\ outcome' = IF calc_result[1] = "Ok" THEN Some(calc_result[2]) ELSE None
    /\ pc' = "done"
    /\ UNCHANGED <<input, x, variables, tokens, rest, postfix, i, output,
                   operators, stack, sy_result, calc_result, fault, prev, calls>>

\* How a call of eval ended.
Ended == pc \in {"done", "panic"}
Outcome == IF pc = "panic" THEN <<"Panic">> ELSE outcome

(***************************************************************************)
(* Inputs.                                                                 *)
(***************************************************************************)
Seqs(S, n) == UNION {[1..k -> S] : k \in 0..n}

Chars == {"5", ".", "x", "+", "-", "(", ")", " ", "n"}

\* Inputs of the repository's tests and of the documented examples.
Examples ==
    { <<"5", "x">>,
      <<"5", " ", "*", " ", "s", "i", "n", " ", "(", " ", "x", " ", ")">>,
      <<"n", "o", "t", " ", "a", "n", " ", "e", "x", "p">>,
      <<"2", " ", "(", " ", "x", " ", "+", " ", "1", " ", ")", " ", "/", " ", "2">>,
      <<"4", " ", "+", " ", "2", " ", "*", " ", "3">>,
      <<"4", ".", "5", " ", "+", " ", "2", " ", "*", " ", "3">>,
      <<"4", " ", "*", " ", "(", "2", " ", "+", " ", "3", ")">>,
      <<"2", "^", "3", "^", "2">>,
      <<"s", "i", "n", "(", "0", ")">>,
      <<"s", "i", "n", "(", "0", ")", "+", "1">>,
      <<"-", "1", "+", "2">>,
      <<"1", "+", "2", "a", "b", "c">>,
      <<"1", ".", "2", ".", "3">> }

Inputs == Seqs(Chars, MaxInput) \cup Examples

XValues == {None, Some(Num(2, 1)), Some(Num(-1, 1))}

TokenAlphabet ==
    {Number(5, 1), Variable("X"), Operator("+"), Operator("^"), LeftParen,
     RightParen, Negate, Function("Sin")}

PostfixAlphabet ==
    {Number(5, 1), Number(2, 1), Variable("X"), Operator("+"), Operator("/"),
     Negate, Function("Sin")}

InfixNumbers == {Number(2, 1), Number(3, 1), Number(4, 1)}
InfixOperators == {Operator("+"), Operator("*"), Operator("/"), Operator("^")}

\* The well-formed infix sequences of exactly n tokens: a number, a
\* parenthesised sequence, or two sequences around a binary operator.
RECURSIVE InfixOfLen(_)
InfixOfLen(n) ==
    IF n = 1 THEN {<<t>> : t \in InfixNumbers}
    ELSE IF n < 3 THEN {}
    ELSE {<<LeftParen>> \o e \o <<RightParen>> : e \in InfixOfLen(n - 2)}
         \cup UNION {{a \o <<op>> \o b : a \in InfixOfLen(k),
                                         b \in InfixOfLen(n - 1 - k),
                                         op \in InfixOperators} : k \in 1..(n - 2)}

WellFormed == UNION {InfixOfLen(n) : n \in 1..MaxInfix}

(***************************************************************************)
(* Specifications.                                                         *)
(***************************************************************************)
Fresh ==
    /\ variables = <<>>
    /\ rest = <<>>
    /\ output = <<>>
    /\ operators = <<>>
    /\ stack = <<>>
    /\ sy_result = None
    /\ calc_result = None
    /\ outcome = None
    /\ fault = "none"
    /\ prev = <<None, None>>
    /\ calls = 1
    /\ i = 1

\* eval on a text, and eval again on the same text.
Init ==
    /\ input \in Inputs
    /\ x \in XValues
    /\ tokens = <<>>
    /\ postfix = <<>>
    /\ pc = "eval"
    /\ Fresh

ReEval ==
    /\ Ended
    /\ calls < MaxCalls
    /\ calls' = calls + 1
    /\ prev' = <<x, Outcome>>
    /\ x' \in XValues
    /\ pc' = "eval"
    /\ variables' = <<>>
    /\ tokens' = <<>>
    /\ rest' = <<>>
    /\ postfix' = <<>>
    /\ i' = 1
    /\ output' = <<>>
    /\ operators' = <<>>
    /\ stack' = <<>>
    /\ sy_result' = None
    /\ calc_result' = None
    /\ outcome' = None
    /\ fault' = "none"
    /\ UNCHANGED input

Next ==
    \/ ApiEval
    \/ EvalWithVarTokens
    \/ SYStep
    \/ SYFinish
    \/ UnwrapPostfix
    \/ CalcStep
    \/ CalcFinish
    \/ EvalWithVarReturn
    \/ ReEval

Spec == Init /\ [][Next]_vars

\* shunting_yard on any token sequence.
InitTokens ==
    /\ input = <<>>
    /\ x = None
    /\ tokens \in Seqs(TokenAlphabet, MaxTokens)
    /\ postfix = <<>>
    /\ pc = "shunting_yard"
    /\ Fresh

NextTokens == SYStep \/ SYFinish

SpecTokens == InitTokens /\ [][NextTokens]_vars

\* calculate on any postfix sequence.
InitCalc ==
    /\ input = <<>>
    /\ x = None
    /\ tokens = <<>>
    /\ postfix \in Seqs(PostfixAlphabet, MaxPostfix)
    /\ pc = "calculate"
    /\ Fresh

NextCalc == CalcStep \/ CalcFinish

SpecCalc == InitCalc /\ [][NextCalc]_vars

\* shunting_yard, then calculate, on a well-formed infix sequence.
InitInfix ==
    /\ input = <<>>
    /\ x = None
    /\ tokens \in WellFormed
    /\ postfix = <<>>
    /\ pc = "shunting_yard"
    /\ Fresh

NextInfix == SYStep \/ SYFinish \/ UnwrapPostfix \/ CalcStep \/ CalcFinish

SpecInfix == InitInfix /\ [][NextInfix]_vars

(***************************************************************************)
(* Reference definitions used by the properties.                           *)
(***************************************************************************)
IsParen(t) == Kind(t) \in {"LeftParen", "RightParen"}
IsOperand(t) == Kind(t) \in {"Number", "Variable"}

Count(seq, t) == Cardinality({k \in 1..Len(seq) : seq[k] = t})

\* Number of LeftParen minus number of RightParen among the first k tokens.
Open(seq, k) ==
    Cardinality({j \in 1..k : seq[j] = LeftParen})
        - Cardinality({j \in 1..k : seq[j] = RightParen})

\* Every ')' closes an earlier '(' and every '(' is closed.
Balanced(seq) ==
    /\ \A k \in 1..Len(seq) : Open(seq, k) >= 0
    /\ Open(seq, Len(seq)) = 0

\* The expression tree of a well-formed infix sequence: ^ binds tighter
\* than * and /, which bind tighter than +; + * / group left to right and
\* ^ right to left; a parenthesised expression is an operand.
TreePrecedence(sym) ==
    CASE sym = "^" -> 4
      [] sym \in {"*", "/"} -> 3
      [] sym = "+" -> 2

TreeRightToLeft(sym) == sym = "^"

RECURSIVE TreeExpr(_, _, _)
RECURSIVE TreeOperand(_, _)
RECURSIVE TreeClimb(_, _, _, _)

\* <<tree, position after it>> of the operand at p.
TreeOperand(seq, p) ==
    IF Kind(seq[p]) = "Number" THEN <<Num(seq[p][2], seq[p][3]), p + 1>>
    ELSE LET r == TreeExpr(seq, p + 1, 0) IN <<r[1], r[2] + 1>>

\* Extends the tree `lhs` with the operators from p on that bind at least
\* as tightly as `least`.
TreeClimb(seq, lhs, p, least) ==
    IF p <= Len(seq) /\ Kind(seq[p]) = "Operator"
            /\ TreePrecedence(seq[p][2]) >= least
    THEN LET sym == seq[p][2]
             rhs == TreeExpr(seq, p + 1,
                             IF TreeRightToLeft(sym) THEN TreePrecedence(sym)
                             ELSE TreePrecedence(sym) + 1)
         IN  TreeClimb(seq, Apply(sym, lhs, rhs[1]), rhs[2], least)
    ELSE <<lhs, p>>

TreeExpr(seq, p, least) ==
    LET a == TreeOperand(seq, p) IN TreeClimb(seq, a[1], a[2], least)

Tree(seq) == TreeExpr(seq, 1, 0)[1]

\* Number of values on the operand stack after the first k postfix tokens,
\* or -1 once a binary operator has met fewer than two values.
RECURSIVE DepthAfter(_, _)
DepthAfter(seq, k) ==
    IF k = 0 THEN 0
    ELSE LET d == DepthAfter(seq, k - 1)
         IN  IF d = -1 THEN -1
             ELSE CASE Kind(seq[k]) = "Number" -> d + 1
                    [] Kind(seq[k]) = "Operator" -> IF d < 2 THEN -1 ELSE d - 1
                    [] OTHER -> d

\* The first position where a binary operator meets fewer than two values.
FirstUnderflow(seq) ==
    CHOOSE k \in 1..Len(seq) : DepthAfter(seq, k) = -1 /\ DepthAfter(seq, k - 1) # -1

HasValue(o, n, d) == o[1] \in {"Some", "Ok"} /\ Value(o[2]) = <<n, d>>

\* The texts and token sequences of the documented examples.
Text5x == <<"5", "x">>
Text2x1 == <<"2", "(", "x", "+", "1", ")", "/", "2">>
Tokens4Plus2Times3 ==
    <<Number(4, 1), Operator("+"), Number(2, 1), Operator("*"), Number(3, 1)>>
Tokens4TimesParen ==
    <<Number(4, 1), Operator("*"), LeftParen, Number(2, 1), Operator("+"),
      Number(3, 1), RightParen>>
Tokens2Pow3Pow2 ==
    <<Number(2, 1), Operator("^"), Number(3, 1), Operator("^"), Number(2, 1)>>

(***************************************************************************)
(* Properties.                                                             *)
(***************************************************************************)

\* C1: eval never aborts: for every input text and every optional x-value
\* the call ends with a present or an absent result, never with a panic.
C1_EvalNeverAborts == pc # "panic"

\* C2: for every well-formed infix sequence of numbers, + * / ^ and balanced
\* parentheses, shunting_yard succeeds and calculate returns the value of
\* the expression tree (precedence ^ > * / > +, + * / left to right,
\* ^ right to left, parentheses overriding); 4+2*3 = 10, 4*(2+3) = 20 and
\* 2^3^2 = 512.
C2_PostfixValueIsTreeValue ==
    /\ pc # "panic"
    /\ pc = "sy_returned" => sy_result[1] = "Ok"
    /\ pc = "calc_returned" =>
          /\ calc_result[1] = "Ok"
          /\ calc_result[2] = Tree(tokens)
          /\ tokens = Tokens4Plus2Times3 => HasValue(calc_result, 10, 1)
          /\ tokens = Tokens4TimesParen => HasValue(calc_result, 20, 1)
          /\ tokens = Tokens2Pow3Pow2 => HasValue(calc_result, 512, 1)

C2_Witness ==
    /\ pc = "calc_returned"
    /\ tokens = Tokens2Pow3Pow2
    /\ HasValue(calc_result, 512, 1)

\* C3: any input with an unmatched ')' or '(' yields a failure result of
\* shunting_yard ("Mismatched ')'" or "Mismatched '('"), never anything
\* else, and shunting_yard returns Ok only for balanced sequences.
C3_UnmatchedParenYieldsFailure ==
    /\ sy_result[1] = "Ok" => Balanced(tokens)
    /\ (Ended /\ ~Balanced(tokens)) =>
          /\ sy_result[1] = "Err"
          /\ sy_result[2] \in {"Mismatched ')'", "Mismatched '('"}

\* C4: when part of the whitespace-stripped input is left unconsumed by the
\* tokenizer, the tokens of the prefix are not evaluated: a call of eval
\* that returns, returns an absent result.
C4_TrailingInputYieldsNone ==
    (pc = "done" /\ rest # <<>>) => outcome = None

\* C5: shunting_yard never aborts on a token sequence the tokenizer
\* produced: a binary operator that arrives stops at a LeftParen, Function
\* or Negate on top of the operator stack and is pushed.
C5_OperatorArmNeverAborts ==
    /\ fault \notin {"todo", "assert"}
    /\ \A k \in 1..Len(tokens) :
          (pc = "shunting_yard" /\ i = k + 1 /\ Kind(tokens[k]) = "Operator")
              => (operators # <<>> /\ Top(operators) = tokens[k])

\* C6: calculate returns a number exactly when no binary operator met fewer
\* than two values and exactly one value is left after the last token; the
\* first binary operator that meets fewer than two values fails the call at
\* once with "Missing operand for operator '<symbol>'", and a final stack of
\* zero or several values fails it with a message holding the stack size.
C6_CalculateResult ==
    pc = "calc_returned" =>
        LET d == DepthAfter(postfix, Len(postfix))
        IN  /\ calc_result[1] = "Ok" <=> d = 1
            /\ d = -1 =>
                  /\ i = FirstUnderflow(postfix)
                  /\ calc_result =
                        <<"Err", "Missing operand for operator", postfix[i][2]>>
            /\ d \notin {-1, 1} =>
                  calc_result = <<"Err", "Expected 1 value on stack, found", d>>

C6_Witness ==
    /\ pc = "calc_returned"
    /\ postfix = <<Operator("+")>>
    /\ calc_result = <<"Err", "Missing operand for operator", "+">>

C8_ImplicitMultiplication ==
    pc = "done" =>
        /\ (ParserNew(input) = Text5x /\ x = Some(Num(2, 1)))
              => HasValue(outcome, 10, 1)
        /\ (ParserNew(input) = Text2x1 /\ x = Some(Num(-1, 1)))
              => HasValue(outcome, 0, 1)

\* C9: in calculate a Variable token leaves the operand stack unchanged
\* whatever it holds (so [5, x] evaluates to 5), and a Function or Negate
\* token met on an empty stack leaves it empty without failing: evaluation
\* goes on with the next token.
C9_PassThrough ==
    /\ [](pc = "calc_returned" /\ postfix = <<Number(5, 1), Variable("X")>>
            => calc_result = <<"Ok", Num(5, 1)>>)
    /\ [][(/\ pc = "calculate"
           /\ i <= Len(postfix)
           /\ \/ Kind(postfix[i]) = "Variable"
              \/ Kind(postfix[i]) \in {"Function", "Negate"} /\ stack = <<>>)
          => (stack' = stack /\ pc' = "calculate" /\ i' = i + 1)]_vars

C9_Witness ==
    /\ pc = "calc_returned"
    /\ postfix = <<Number(5, 1), Variable("X")>>
    /\ calc_result = <<"Ok", Num(5, 1)>>

\* C10: the operator stack only ever holds Operator, LeftParen, Function
\* and Negate tokens; whenever shunting_yard returns Ok the operator stack
\* is empty (the final assertion never fails) and the output holds every
\* non-parenthesis input token exactly once and no parenthesis, with the
\* Number and Variable tokens in their input order.
C10_OutputIsPermutation ==
    /\ \A k \in 1..Len(operators) :
          Kind(operators[k]) \in {"Operator", "LeftParen", "Function", "Negate"}
    /\ fault # "assert"
    /\ sy_result[1] = "Ok" =>
          /\ operators = <<>>
          /\ sy_result[2] = output
          /\ \A k \in 1..Len(output) : ~IsParen(output[k])
          /\ Len(output) = Len(SelectSeq(tokens, LAMBDA t : ~IsParen(t)))
          /\ \A k \in 1..Len(tokens) :
                ~IsParen(tokens[k]) => Count(output, tokens[k]) = Count(tokens, tokens[k])
          /\ SelectSeq(output, IsOperand) = SelectSeq(tokens, IsOperand)

C10_Witness ==
    /\ sy_result[1] = "Ok"
    /\ Len(tokens) = 4
    /\ Count(tokens, LeftParen) = 1
    /\ Count(tokens, Operator("+")) = 1
    /\ Count(tokens, Number(5, 1)) = 1
====
